---- MODULE Spec2Model ----
(***************************************************************************)
(* Model of the redwood release tooling:                                   *)
(*   tasks/release/validateMilestonesCommand.mjs  (validate-milestones)    *)
(*   .github/workflows/require-release-label.yml  (release label gate)     *)
(*                                                                         *)
(* Representation of JavaScript values:                                    *)
(*   - a string that the code splits is kept as the sequence of its parts: *)
(*     a merge-commit message is the sequence of its lines (split('\n')),  *)
(*     a branch name the sequence of its '/'-separated segments;           *)
(*   - a nullable object is a sequence of length 0 (null) or 1;            *)
(*   - a missing key of an object reads as Undefined.                      *)
(*                                                                         *)
(* The calls to the hosting API, to git and to the terminal are taken to   *)
(* return; what they return is an input of the action that makes the call. *)
(* An exception thrown by the handler's own code ends the process with     *)
(* exit code 1 (crashed = TRUE).                                           *)
(***************************************************************************)
EXTENDS Integers, Sequences, FiniteSets, TLC

VARIABLES
  hasToken,             \* process.env.GITHUB_TOKEN is set
  prompt,               \* the --prompt flag
  pc,                   \* position of handler(): token, cherry, milestones, confirm, compare, loop, exited
  exitCode,             \* -1 while running, else the process' exit code
  crashed,              \* the handler threw (TypeError) instead of calling process.exit / returning
  totalCount,           \* open cherry-pick PRs, -1 before the query
  nodes,                \* milestones kept by handler() after the chore filter
  fetched,              \* history: <<PR id, milestone title>> of every PR of the milestones response
  paged,                \* history: titles of the response's milestones with hasNextPage = true
  reviewAnswer,         \* handler()'s answer to "Ok to review PRs in milestone ..."
  releaseCommits,       \* messages of the commits of the release branch (getReleaseCommits)
  nextCommits,          \* messages found by git in the next branch
  branch,               \* getReleaseBranch(), as its '/'-separated segments
  prs,                  \* the flattened, filtered PR list
  milestoneTitlesToIds, \* title -> id of the kept milestones
  idx,                  \* 1-based position of the for loop over prs
  answer,               \* makeValidateMilestone()'s answer
  asked,                \* "ok to fix?" questions asked for the current PR
  browser,              \* number of the PR last opened in the browser, 0 if none
  displayed,            \* the report lines printed, one record per validateMilestone call
  mutations,            \* MilestonePullRequest mutations sent, in order
  labels,               \* label gate: the labels on the pull request
  gate                  \* label gate: outcome of the last workflow run: none, pass, fail

vars == <<hasToken, prompt, pc, exitCode, crashed, totalCount, nodes, fetched, paged,
          reviewAnswer, releaseCommits, nextCommits, branch, prs, milestoneTitlesToIds,
          idx, answer, asked, browser, displayed, mutations, labels, gate>>

scriptVars == <<hasToken, prompt, pc, exitCode, crashed, totalCount, nodes, fetched, paged,
                reviewAnswer, releaseCommits, nextCommits, branch, prs, milestoneTitlesToIds,
                idx, answer, asked, browser, displayed, mutations>>

gateVars == <<labels, gate>>

----------------------------------------------------------------------------
(* Bounds and input universes *)

\* PRs that the hosting platform may attach to milestones: the first NumPRs of PrPool
NumPRs == 3

\* "ok to fix?" questions that one PR may take (so at most MaxAsk - 1 "open" answers)
MaxAsk == 3

Undefined == "undefined"

IGNORE_LIST ==
  <<"PR_kwDOC2M2f85AxHWK", "PR_kwDOC2M2f85Axh0g", "PR_kwDOC2M2f85A0cDn", "PR_kwDOC2M2f85CiaV_">>

PrPool ==
  <<"PR_kwDOC2M2f85Dq001", "PR_kwDOC2M2f85AxHWK", "PR_kwDOC2M2f85Dq002", "PR_kwDOC2M2f85Dq003">>

PrIds == {PrPool[i] : i \in 1..NumPRs}

\* number and title of a PR are fixed by its id
NumberOf(id) ==
  CASE id = "PR_kwDOC2M2f85Dq001" -> 7001
    [] id = "PR_kwDOC2M2f85AxHWK" -> 6692
    [] id = "PR_kwDOC2M2f85Dq002" -> 7002
    [] OTHER -> 7003

\* the merge-commit messages, as their lines
MessageA == <<"fix: a (#7001)", "", "Co-authored-by: x">>
MessageB == <<"feat: say \"hi\" (#7002)">>

MessageOf(id) ==
  IF id \in {"PR_kwDOC2M2f85Dq001", "PR_kwDOC2M2f85Dq003"} THEN MessageA ELSE MessageB

Titles == {"chore", "v3.5.0", "next-release", "v4.0.0"}
TitleOrder == <<"v4.0.0", "chore", "v3.5.0", "next-release">>

MilestoneIdOf(t) ==
  CASE t = "chore" -> "MI_chore"
    [] t = "v3.5.0" -> "MI_v350"
    [] t = "next-release" -> "MI_next"
    [] OTHER -> "MI_v400"

Branches == {<<"release", "minor", "v3.5.0">>}

FirstLines == {"fix: a (#7001)", "feat: say \"hi\" (#7002)"}
NextLines == {"fix: a (#7001)", "feat: say \"hi\" (#7002)", "feat: say hi (#7002)"}

ReviewAnswers == {"", "n"}
Answers == {"", "y", "n", "o", "open"}

----------------------------------------------------------------------------
(* releaseLib.mjs helpers *)

sanitizeMessage(message) ==
  IF message = "feat: say \"hi\" (#7002)" THEN "feat: say hi (#7002)" ELSE message

isCommitInRef(commits, message) == message \in commits

isYes(res) == res \in {"", "Y", "y"}

----------------------------------------------------------------------------
(* The milestones response *)

PullRequest(id, merged) ==
  [id |-> id, number |-> NumberOf(id), title |-> id,
   mergeCommit |-> IF merged THEN <<[message |-> MessageOf(id)]>> ELSE <<>>]

Milestone(t, next, assign, merged) ==
  [id |-> MilestoneIdOf(t), title |-> t,
   pullRequests |->
     [pageInfo |-> [hasNextPage |-> next],
      nodes |-> LET ids == SelectSeq(SubSeq(PrPool, 1, NumPRs), LAMBDA p : assign[p] = t)
                IN  [i \in 1..Len(ids) |-> PullRequest(ids[i], ids[i] \in merged)]]]

Response(open, next, assign, merged) ==
  LET ts == SelectSeq(TitleOrder, LAMBDA t : t \in open)
  IN  [i \in 1..Len(ts) |-> Milestone(ts[i], ts[i] \in next, assign, merged)]

----------------------------------------------------------------------------
(* handler(), lines 31-133 *)

\* line 59: nodes.filter((node) => node.title !== 'chore')
FilterChore(ns) == SelectSeq(ns, LAMBDA node : node.title /= "chore")

\* variant: the inner negation of line 62 dropped
HasNextPageNotAll(ns) == \E i \in 1..Len(ns) : ~ns[i].pullRequests.pageInfo.hasNextPage

\* lines 61-63: some kept milestone has a next page
HasNextPage(ns) == \E i \in 1..Len(ns) : ns[i].pullRequests.pageInfo.hasNextPage

\* line 94 reads pr.mergeCommit.message: a TypeError when mergeCommit is null
ThrowsOnMergeCommit(ns) ==
  \E i \in 1..Len(ns) : \E j \in 1..Len(ns[i].pullRequests.nodes) :
    ns[i].pullRequests.nodes[j].mergeCommit = <<>>

\* lines 93-100: the message is cut to its first line, the milestone title is added
WithMilestone(pr, milestone) ==
  [id |-> pr.id, number |-> pr.number, title |-> pr.title,
   mergeCommit |-> [message |-> Head(pr.mergeCommit[1].message)],
   milestone |-> milestone.title]

RECURSIVE FlatMapPRs(_)
FlatMapPRs(ns) ==
  IF ns = <<>> THEN <<>>
  ELSE LET m == Head(ns)
           ps == m.pullRequests.nodes
       IN  [j \in 1..Len(ps) |-> WithMilestone(ps[j], m)] \o FlatMapPRs(Tail(ns))

InIgnoreList(id) == \E k \in 1..Len(IGNORE_LIST) : IGNORE_LIST[k] = id

\* variant: the ignore-list filter of line 102 dropped
BuildPRsUnfiltered(ns) == FlatMapPRs(ns)

\* lines 91-102
BuildPRs(ns) == SelectSeq(FlatMapPRs(ns), LAMBDA pr : ~InIgnoreList(pr.id))

\* lines 104-107: a later milestone of the same title overwrites an earlier one
RECURSIVE ReduceTitlesToIds(_, _)
ReduceTitlesToIds(ns, obj) ==
  IF ns = <<>> THEN obj
  ELSE LET m == Head(ns)
       IN  ReduceTitlesToIds(Tail(ns),
             [t \in (DOMAIN obj) \cup {m.title} |-> IF t = m.title THEN m.id ELSE obj[t]])

EmptyObject == [t \in {} |-> Undefined]

Lookup(obj, key) == IF key \in DOMAIN obj THEN obj[key] ELSE Undefined

\* lines 176-179
isCommitInReleaseBranch(message) == \E commit \in releaseCommits : commit = message

\* variant: the next test of line 126 made before the release test of line 121
TierNextFirst(pr) ==
  IF isCommitInRef(nextCommits, sanitizeMessage(pr.mergeCommit.message)) THEN "next"
  ELSE IF isCommitInReleaseBranch(pr.mergeCommit.message) THEN "release"
  ELSE "fallback"

\* lines 121-131: which tier decides the expected milestone
Tier(pr) ==
  IF isCommitInReleaseBranch(pr.mergeCommit.message) THEN "release"
  ELSE IF isCommitInRef(nextCommits, sanitizeMessage(pr.mergeCommit.message)) THEN "next"
  ELSE "fallback"

\* line 122: branch.split('/')[2]
VersionSegment(b) == b[3]

ExpectedMilestone(pr) ==
  CASE Tier(pr) = "release" -> VersionSegment(branch)
    [] Tier(pr) = "next" -> "next-release"
    [] OTHER -> "v4.0.0"

\* variant: the comparison of line 182 inverted
hasWrongMilestone(pr, milestone) == pr.milestone /= milestone

\* line 182
hasCorrectMilestone(pr, milestone) == pr.milestone = milestone

\* variant: the initial answer of line 201 is "o"
DefaultAnswerOpen == "o"

\* line 201
DefaultAnswer == "y"

\* variant: line 209 without the short form
IsOpenLongOnly(a) == a \in {"open"}

\* line 209
IsOpen(a) == a \in {"open", "o"}

Exit(code) ==
  /\ pc' = "exited"
  /\ exitCode' = code
  /\ crashed' = FALSE

\* the for loop of lines 118-132 moves on; after the last PR handler() returns
Advance ==
  /\ idx' = idx + 1
  /\ IF idx + 1 > Len(prs)
       THEN Exit(0)
       ELSE pc' = "compare" /\ UNCHANGED <<exitCode, crashed>>

\* lines 32-35
CheckToken ==
  /\ pc = "token"
  /\ IF ~hasToken
       THEN Exit(1)
       ELSE pc' = "cherry" /\ UNCHANGED <<exitCode, crashed>>
  /\ UNCHANGED <<hasToken, prompt, totalCount, nodes, fetched, paged, reviewAnswer,
                 releaseCommits, nextCommits, branch, prs, milestoneTitlesToIds, idx,
                 answer, asked, browser, displayed, mutations, gateVars>>

\* lines 39-51
QueryCherryPicks ==
  /\ pc = "cherry"
  /\ \E n \in 0..1 : totalCount' = n
  /\ IF totalCount' > 0
       THEN Exit(1)
       ELSE pc' = "milestones" /\ UNCHANGED <<exitCode, crashed>>
  /\ UNCHANGED <<hasToken, prompt, nodes, fetched, paged, reviewAnswer,
                 releaseCommits, nextCommits, branch, prs, milestoneTitlesToIds, idx,
                 answer, asked, browser, displayed, mutations, gateVars>>

\* lines 53-68
QueryMilestones ==
  /\ pc = "milestones"
  /\ \E open \in SUBSET Titles :
     \E next \in SUBSET open :
     \E assign \in [PrIds -> open \cup {Undefined}] :
     \E merged \in SUBSET {p \in PrIds : assign[p] /= Undefined} :
       LET response == Response(open, next, assign, merged)
       IN  /\ nodes' = FilterChore(response)
           /\ fetched' = {<<p, assign[p]>> : p \in {q \in PrIds : assign[q] /= Undefined}}
           /\ paged' = next
  /\ IF HasNextPage(nodes')
       THEN Exit(1)
       ELSE pc' = "confirm" /\ UNCHANGED <<exitCode, crashed>>
  /\ UNCHANGED <<hasToken, prompt, totalCount, reviewAnswer,
                 releaseCommits, nextCommits, branch, prs, milestoneTitlesToIds, idx,
                 answer, asked, browser, displayed, mutations, gateVars>>

\* lines 77-116, up to the first iteration of the for loop
Confirm ==
  /\ pc = "confirm"
  /\ \E a \in ReviewAnswers : reviewAnswer' = a
  /\ IF reviewAnswer' = "n"
       THEN /\ Exit(1)
            /\ UNCHANGED <<releaseCommits, nextCommits, branch, prs, milestoneTitlesToIds, idx>>
       ELSE IF ThrowsOnMergeCommit(nodes)
       THEN /\ pc' = "exited"
            /\ exitCode' = 1
            /\ crashed' = TRUE
            /\ UNCHANGED <<releaseCommits, nextCommits, branch, prs, milestoneTitlesToIds, idx>>
       ELSE /\ \E rc \in SUBSET FirstLines : releaseCommits' = rc
            /\ \E nc \in SUBSET NextLines : nextCommits' = nc
            /\ \E b \in Branches : branch' = b
            /\ prs' = BuildPRs(nodes)
            /\ milestoneTitlesToIds' = ReduceTitlesToIds(nodes, EmptyObject)
            /\ idx' = 1
            /\ IF Len(prs') = 0
                 THEN Exit(0)
                 ELSE pc' = "compare" /\ UNCHANGED <<exitCode, crashed>>
  /\ UNCHANGED <<hasToken, prompt, totalCount, nodes, fetched, paged,
                 answer, asked, browser, displayed, mutations, gateVars>>

\* lines 118-131 with makeValidateMilestone() up to its loop, lines 181-201
Compare ==
  /\ pc = "compare"
  /\ LET pr == prs[idx]
         milestone == ExpectedMilestone(pr)
         ok == hasCorrectMilestone(pr, milestone)
     IN  /\ displayed' = Append(displayed,
              [id |-> pr.id, number |-> pr.number, title |-> pr.title,
               expected |-> milestone, actual |-> pr.milestone, ok |-> ok,
               tier |-> Tier(pr)])
         /\ IF ok
              THEN Advance /\ UNCHANGED <<answer, asked>>
              ELSE /\ answer' = DefaultAnswer
                   /\ asked' = 0
                   /\ pc' = "loop"
                   /\ UNCHANGED <<idx, exitCode, crashed>>
  /\ UNCHANGED <<hasToken, prompt, totalCount, nodes, fetched, paged, reviewAnswer,
                 releaseCommits, nextCommits, branch, prs, milestoneTitlesToIds,
                 browser, mutations, gateVars>>

\* one iteration of the while (true) of lines 204-229
FixLoop ==
  /\ pc = "loop"
  /\ IF prompt
       THEN /\ asked' = asked + 1
            /\ \E a \in Answers :
                 /\ IsOpen(a) => asked + 1 < MaxAsk
                 /\ answer' = a
       ELSE UNCHANGED <<answer, asked>>
  /\ LET pr == prs[idx]
         milestone == ExpectedMilestone(pr)
     IN  IF IsOpen(answer')
           THEN /\ browser' = pr.number
                /\ UNCHANGED <<pc, idx, exitCode, crashed, mutations>>
           ELSE /\ IF isYes(answer')
                     THEN mutations' = Append(mutations,
                            [pullRequestId |-> pr.id,
                             milestoneId |-> Lookup(milestoneTitlesToIds, milestone)])
                     ELSE UNCHANGED mutations
                /\ Advance
                /\ UNCHANGED browser
  /\ UNCHANGED <<hasToken, prompt, totalCount, nodes, fetched, paged, reviewAnswer,
                 releaseCommits, nextCommits, branch, prs, milestoneTitlesToIds,
                 displayed, gateVars>>

InitScript ==
  /\ hasToken \in BOOLEAN
  /\ prompt \in BOOLEAN
  /\ pc = "token"
  /\ exitCode = -1
  /\ crashed = FALSE
  /\ totalCount = -1
  /\ nodes = <<>>
  /\ fetched = {}
  /\ paged = {}
  /\ reviewAnswer = ""
  /\ releaseCommits = {}
  /\ nextCommits = {}
  /\ branch = <<>>
  /\ prs = <<>>
  /\ milestoneTitlesToIds = EmptyObject
  /\ idx = 0
  /\ answer = ""
  /\ asked = 0
  /\ browser = 0
  /\ displayed = <<>>
  /\ mutations = <<>>

Init ==
  /\ InitScript
  /\ labels = {}
  /\ gate = "none"

Next ==
  \/ CheckToken
  \/ QueryCherryPicks
  \/ QueryMilestones
  \/ Confirm
  \/ Compare
  \/ FixLoop

Spec == Init /\ [][Next]_vars

----------------------------------------------------------------------------
(* The label gate, require-release-label.yml *)

LabelPool ==
  {"release:docs", "release:chore", "release:fix", "release:feature",
   "release:feature-breaking", "topic:docs", "cherry-pick"}

\* line 22, split at the commas
RequiredLabels ==
  <<"release:docs", "release:chore", "release:fix", "release:feature",
    "release:feature-breaking">>

\* variant: mode: minimum
ModeMinimum == "minimum"

\* line 20
Mode == "exactly"

\* line 21
Count == 1

\* the required-labels step: the required labels that are applied are counted
\* and the count is compared as the mode says
RequireReleaseLabel(applied) ==
  LET intersection == SelectSeq(RequiredLabels, LAMBDA l : l \in applied)
      n == Len(intersection)
  IN  CASE Mode = "exactly" -> n = Count
        [] Mode = "minimum" -> n >= Count
        [] Mode = "maximum" -> n <= Count

RunGate(applied) == IF RequireReleaseLabel(applied) THEN "pass" ELSE "fail"

\* pull_request: labeled
Labeled ==
  /\ \E l \in LabelPool \ labels : labels' = labels \cup {l}
  /\ gate' = RunGate(labels')
  /\ UNCHANGED scriptVars

\* pull_request: unlabeled
Unlabeled ==
  /\ \E l \in labels : labels' = labels \ {l}
  /\ gate' = RunGate(labels')
  /\ UNCHANGED scriptVars

\* pull_request: opened, synchronize, reopened
Synchronize ==
  /\ gate' = RunGate(labels)
  /\ UNCHANGED labels
  /\ UNCHANGED scriptVars

InitGate ==
  /\ InitScript
  /\ hasToken
  /\ prompt
  /\ labels \in SUBSET LabelPool
  /\ gate = "none"

NextGate ==
  \/ Labeled
  \/ Unlabeled
  \/ Synchronize

SpecGate == InitGate /\ [][NextGate]_vars

----------------------------------------------------------------------------
(* Properties *)

IgnoredIds ==
  {"PR_kwDOC2M2f85AxHWK", "PR_kwDOC2M2f85Axh0g", "PR_kwDOC2M2f85A0cDn", "PR_kwDOC2M2f85CiaV_"}

OpenResponses == {"open", "o"}

\* the PR that report line j is about (report lines follow the order of prs)
FirstLineOf(j) == Head(MessageOf(displayed[j].id))

\* C1: every report line carries the expected milestone of the first applicable
\* tier: the first line of the merge-commit message among the release commits ->
\* third segment of the release branch; else its sanitized form in next ->
\* "next-release"; else "v4.0.0". One tier applies, the release tier first.
C1_Tiers ==
  \A j \in 1..Len(displayed) :
    LET d == displayed[j]
        inRelease == FirstLineOf(j) \in releaseCommits
        inNext == sanitizeMessage(FirstLineOf(j)) \in nextCommits
    IN  /\ d.id = prs[j].id
        /\ inRelease => d.tier = "release" /\ d.expected = branch[3]
        /\ ~inRelease /\ inNext => d.tier = "next" /\ d.expected = "next-release"
        /\ ~inRelease /\ ~inNext => d.tier = "fallback" /\ d.expected = "v4.0.0"

C1_Witness ==
  /\ \E j \in 1..Len(displayed) :
       /\ displayed[j].tier = "release"
       /\ sanitizeMessage(FirstLineOf(j)) \in nextCommits
       /\ Len(MessageOf(displayed[j].id)) > 1
  /\ \E j \in 1..Len(displayed) :
       /\ displayed[j].tier = "next"
       /\ FirstLineOf(j) /= sanitizeMessage(FirstLineOf(j))

\* C2 as stated: when a milestone of the response has hasNextPage = true, no PR
\* is ever classified, displayed, prompted for or mutated, and the script ends
\* with exit code 1.
C2_Original ==
  paged /= {} =>
    /\ displayed = <<>> /\ mutations = <<>> /\ asked = 0
    /\ pc = "exited" => exitCode = 1 /\ ~crashed

\* C2 amended: when a milestone other than "chore" of the response has
\* hasNextPage = true, the script has exited with code 1 on receiving the
\* response: no PR list was built and no PR was classified, displayed, prompted
\* for or mutated.
C2_Amended ==
  paged \ {"chore"} /= {} =>
    /\ pc = "exited" /\ exitCode = 1 /\ ~crashed
    /\ prs = <<>> /\ displayed = <<>> /\ mutations = <<>> /\ asked = 0

C2_Witness ==
  /\ paged \ {"chore"} /= {}
  /\ Len(nodes) >= 2
  /\ \E i \in 1..Len(nodes) : ~nodes[i].pullRequests.pageInfo.hasNextPage
  /\ \E i \in 1..Len(nodes) : Len(nodes[i].pullRequests.nodes) > 0
  /\ pc = "exited"

\* C3 as stated: each mismatched PR answered affirmatively got exactly one
\* mutation, and every mutation sent carries the id of a kept open milestone
\* whose title is the expected milestone of its PR.
C3_Claim ==
  /\ \A k \in 1..Len(mutations) :
       \E j \in 1..Len(displayed) :
         /\ displayed[j].id = mutations[k].pullRequestId
         /\ ~displayed[j].ok
         /\ \E i \in 1..Len(nodes) :
              /\ nodes[i].title = displayed[j].expected
              /\ nodes[i].id = mutations[k].milestoneId
  /\ \A k1, k2 \in 1..Len(mutations) :
       mutations[k1].pullRequestId = mutations[k2].pullRequestId => k1 = k2

\* C4: a mutation is sent only in the fix loop of a PR whose report line shows
\* different expected and actual milestones, and only on an affirmative answer;
\* a PR whose milestones match is reported ok and passed without question or
\* mutation; an answer that is neither open/o nor affirmative (isYes) passes
\* the PR without mutation.
C4_MutationOnlyOnMismatchAndYes ==
  [][/\ mutations' /= mutations =>
          /\ pc = "loop"
          /\ displayed[idx].id = prs[idx].id
          /\ displayed[idx].expected /= displayed[idx].actual
          /\ isYes(answer')
          /\ Len(mutations') = Len(mutations) + 1
          /\ mutations'[Len(mutations')].pullRequestId = prs[idx].id
     /\ (pc = "compare" /\ displayed'[idx].expected = displayed'[idx].actual) =>
          /\ displayed'[idx].ok
          /\ idx' = idx + 1
          /\ pc' /= "loop"
          /\ asked' = asked
          /\ mutations' = mutations
     /\ (pc = "compare" /\ displayed'[idx].expected /= displayed'[idx].actual) =>
          ~displayed'[idx].ok
     /\ (pc = "loop" /\ answer' \notin OpenResponses /\ ~isYes(answer')) =>
          /\ idx' = idx + 1
          /\ mutations' = mutations
    ]_vars

C4_Witness ==
  /\ pc = "exited" /\ exitCode = 0
  /\ answer = "n"
  /\ \E j \in 1..Len(displayed) : displayed[j].ok
  /\ \E j \in 1..Len(displayed) :
       /\ ~displayed[j].ok
       /\ \A k \in 1..Len(mutations) : mutations[k].pullRequestId /= displayed[j].id

\* the PRs of the response that are to be validated
ToValidate == {f[1] : f \in {g \in fetched : g[2] /= "chore" /\ g[1] \notin IgnoredIds}}

C6_Claim ==
  pc = "exited" =>
    /\ exitCode = 1 <=>
         (~hasToken \/ totalCount > 0 \/ paged /= {} \/ reviewAnswer = "n")
    /\ exitCode \in {0, 1}
    /\ ~crashed

\* C7: with the prompt flag off no question is asked and no browser is opened,
\* and the fix loop of a mismatched PR sends the mutation for that PR and moves
\* on in its first iteration.
C7_NoPromptFixes ==
  [][~prompt =>
       /\ asked' = 0
       /\ browser' = 0
       /\ (pc = "compare" /\ ~displayed'[idx].ok) => pc' = "loop" /\ idx' = idx
       /\ pc = "loop" =>
            /\ Len(mutations') = Len(mutations) + 1
            /\ mutations'[Len(mutations')].pullRequestId = prs[idx].id
            /\ idx' = idx + 1
            /\ pc' /= "loop"
    ]_vars

C7_Witness ==
  /\ ~prompt
  /\ pc = "exited" /\ exitCode = 0
  /\ Len(mutations) >= 1
  /\ \E j \in 1..Len(displayed) : displayed[j].ok

\* C9: with prompting on, an open/o answer sends no mutation, prints nothing,
\* keeps the loop on the same PR (which is asked again) and only opens the PR in
\* the browser; the first answer that is not open/o ends the loop of that PR.
C9_OpenDoesNotConsume ==
  [][(prompt /\ pc = "loop") =>
       /\ asked' = asked + 1
       /\ answer' \in OpenResponses =>
            /\ mutations' = mutations
            /\ displayed' = displayed
            /\ idx' = idx
            /\ pc' = "loop"
            /\ exitCode' = -1
            /\ browser' = prs[idx].number
       /\ answer' \notin OpenResponses =>
            /\ idx' = idx + 1
            /\ pc' /= "loop"
            /\ browser' = browser
    ]_vars

C9_Witness ==
  /\ prompt
  /\ pc = "loop"
  /\ asked >= 2
  /\ answer = "o"
  /\ browser = prs[idx].number
  /\ idx >= 2

\* C10 as stated: the script never reads the message of a missing merge commit,
\* so the handler never throws on a PR of a kept milestone.
C10_Claim == ~crashed

AllowedSet ==
  {"release:docs", "release:chore", "release:fix", "release:feature",
   "release:feature-breaking"}

\* C8: after a run of the label gate, it has passed iff exactly one of the five
\* release labels is on the pull request; other labels do not count.
C8_ExactlyOne ==
  gate /= "none" =>
    /\ gate \in {"pass", "fail"}
    /\ gate = "pass" <=> Cardinality(labels \cap AllowedSet) = 1

C8_Witness ==
  /\ gate = "pass"
  /\ Cardinality(labels) >= 3
  /\ "release:fix" \in labels

====
